---- MODULE Spec2Model ----
(***************************************************************************)
(* Vacancy / application lifecycle of the tuition-website backend.         *)
(*                                                                         *)
(* The model covers the route handlers of routes/teacherApply.js (TA) and  *)
(* routes/vacancyRoutes.js (VR) that read or write the `applications`      *)
(* array and the `status` of a Vacancy document:                           *)
(*   TA  POST /apply-vacancy/:id                 (find, push, save, find)  *)
(*   VR  POST /apply-vacancy/:id                 (find, push, save)        *)
(*   TA  PUT  /application-status/:applicationId (findOneAndUpdate,        *)
(*                                                updateOne)               *)
(*   VR  PUT  /:vacancyId/applications/:applicationId/status               *)
(*                                               (findOneAndUpdate)        *)
(*   TA  GET  /available-vacancies               (find)                    *)
(*   VR  PATCH /:id/status                       (findByIdAndUpdate)       *)
(* Every `await` of a handler is one step of the model: the store          *)
(* operation it waits for is atomic on one document, and the synchronous   *)
(* code that follows it up to the next `await` runs without interleaving   *)
(* (Node's single-threaded event loop).  Requests of different clients     *)
(* interleave at the awaits.                                               *)
(*                                                                         *)
(* document.save() after applications.push(..) is sent by Mongoose as      *)
(* { $push: { applications: .. }, $set: { <modified paths> } }: the new    *)
(* element is appended to the array as stored, the local copy of the       *)
(* array is not written back.                                              *)
(***************************************************************************)
EXTENDS Integers, Sequences, FiniteSets, TLC

\* ---------------------------------------------------------------- bounds
NumVacancies == 1      \* vacancies in the store
NumTeachers == 6       \* teacher identities that send apply requests
NumSlots == 2          \* requests that can be in flight at the same time
MaxInitApps == 4       \* applications already stored in the initial state
MaxOps == 3            \* pushes and application-status requests after that

\* ------------------------------------------------------- program constants
\* `existingVacancy.applications.length === 5`, `vacancy.applications.length >= 5`
CAPACITY == 5

VacancyIds == 1..NumVacancies
\* an id that names no vacancy of the store
NoVacancy == 0
Teachers == 1..NumTeachers
Slots == 1..NumSlots
\* an id that names no application of the store
NoAppId == 0
\* values the handlers receive in req.body.status; neither route validates it
TargetStatuses == {"pending", "accepted", "rejected"}

VARIABLES
    store,      \* store[v] = [status, applications]: the Vacancy collection
    nextId,     \* next application _id / timestamp handed out at push time
    ops,        \* pushes and application-status requests made so far
    req,        \* req[s]: the request in flight in slot s, between two awaits
    last        \* the request that finished last, and the response sent to it

vars == <<store, nextId, ops, req, last>>

\* ------------------------------------------------------------ helpers
NoApp == [id |-> NoAppId, teacher |-> 0, status |-> "none", appliedAt |-> 0]

\* req[s] of a slot with no request in flight
IdleReq ==
    [pc |-> "idle", op |-> "none", route |-> "none", vac |-> NoVacancy,
     teacher |-> 0, appId |-> NoAppId, target |-> "none", newApp |-> NoApp,
     localLen |-> 0, localStatus |-> "none", pre |-> <<>>, doc |-> <<>>]

NoResponse ==
    [op |-> "none", route |-> "none", vac |-> NoVacancy, teacher |-> 0,
     appId |-> NoAppId, target |-> "none", outcome |-> "none",
     vacancyStatus |-> "none", applications |-> <<>>, vacancies |-> {}]

\* the response res.json(..) of request r: `outcome` stands for the HTTP
\* status and message, vacancyStatus and applications for the fields of that
\* name (or `data`) when the handler sends them; vacancies is the `data` of
\* a listing, {} for every other request
Response(r, outcome, vacancyStatus, applications) ==
    [op |-> r.op, route |-> r.route, vac |-> r.vac, teacher |-> r.teacher,
     appId |-> r.appId, target |-> r.target, outcome |-> outcome,
     vacancyStatus |-> vacancyStatus, applications |-> applications,
     vacancies |-> {}]

\* the vacancies whose applications contain an element with _id = a
VacanciesWithApp(a) ==
    {v \in VacancyIds :
        \E i \in 1..Len(store[v].applications) :
            store[v].applications[i].id = a}

\* position matched by the positional operator `applications.$`:
\* the first element that satisfies the query on the array
PositionOf(apps, a) ==
    CHOOSE i \in 1..Len(apps) :
        /\ apps[i].id = a
        /\ \A j \in 1..(i - 1) : apps[j].id # a

\* { $set: { 'applications.$.status': status } }
SetPositional(apps, a, status) ==
    [apps EXCEPT ![PositionOf(apps, a)].status = status]

\* { $set: { 'applications.$[elem].status': 'rejected' } } with
\* arrayFilters [{ 'elem._id': { $ne: applicationId }, 'elem.status': 'pending' }]
RejectOtherPending(apps, a) ==
    [i \in 1..Len(apps) |->
        IF apps[i].id # a /\ apps[i].status = "pending"
        THEN [apps[i] EXCEPT !.status = "rejected"]
        ELSE apps[i]]

\* The store after teachers 1..n have applied to vacancy 1 one after the
\* other, n < CAPACITY (either apply route leaves this state); every other
\* vacancy is as created: open and without applications.
InitialApps(n) ==
    [i \in 1..n |->
        [id |-> i, teacher |-> i, status |-> "pending", appliedAt |-> i]]

Init ==
    /\ \E n \in 0..MaxInitApps :
           /\ store = [v \in VacancyIds |->
                          [status |-> "open",
                           applications |-> IF v = 1 THEN InitialApps(n)
                                                     ELSE <<>>]]
           /\ nextId = n + 1
    /\ ops = 0
    /\ req = [s \in Slots |-> IdleReq]
    /\ last = NoResponse

\* a new request takes the first slot with no request in flight
Free(s) ==
    /\ req[s].pc = "idle"
    /\ \A x \in Slots : x < s => req[x].pc # "idle"

\* ------------------------------------------------------------ inputs
\* The handlers only compare teacher ids for equality, so a request comes
\* from a teacher already seen, or from the first one not seen yet.
SeenTeachers ==
    UNION {{store[v].applications[i].teacher :
                i \in 1..Len(store[v].applications)} : v \in VacancyIds}
    \cup {req[s].teacher : s \in {x \in Slots : req[x].op = "apply"}}

ApplyTeachers ==
    {t \in Teachers : \A u \in Teachers : u < t => u \in SeenTeachers}

\* ids a status request can name: one handed out so far, or none
AppIds == {NoAppId} \cup (1..(nextId - 1))

\* ------------------------------------------------- apply, teacherApply.js
\* FindOpen without the status condition of the query
FindOpenAnyStatus(v) == {w \in VacancyIds : w = v}

\* FindOpen without the _id condition of the query
FindOpenAnyId(v) == {w \in VacancyIds : store[w].status = "open"}

\* Vacancy.findOne({ _id: vacancyId, status: 'open' }): the documents that
\* match (at most one); the handler goes on with the document found
FindOpen(v) == {w \in VacancyIds : w = v /\ store[w].status = "open"}

\* AlreadyApplied that looks at pending applications only
AlreadyAppliedPendingOnly(apps, t) ==
    \E i \in 1..Len(apps) : apps[i].teacher = t /\ apps[i].status = "pending"

\* existingVacancy.applications.some(app => app.teacher &&
\*     app.teacher._id.toString() === teacherId.toString())
AlreadyApplied(apps, t) == \E i \in 1..Len(apps) : apps[i].teacher = t

\* the subdocument built by applications.push({ teacher, status: 'pending',
\* appliedAt: new Date() }); its _id is generated at the same moment
PushedApp(t) ==
    [id |-> nextId, teacher |-> t, status |-> "pending", appliedAt |-> nextId]

\* `if (existingVacancy.applications.length === 5) existingVacancy.status = 'closed'`
\* evaluated on the local copy after the push
LocalStatusAfterPush(localLen, status) ==
    IF localLen = CAPACITY THEN "closed" ELSE status

\* SaveApply that writes the whole array back from a copy in which every
\* application is still pending
SaveApplyWritesPendingCopy(vacancy, app, localStatus) ==
    [status |-> IF localStatus = "closed" THEN "closed" ELSE vacancy.status,
     applications |->
         Append([i \in 1..Len(vacancy.applications) |->
                    [vacancy.applications[i] EXCEPT !.status = "pending"]],
                app)]

\* SaveApply that writes the status of the copy, modified or not
SaveApplyWritesStatus(vacancy, app, localStatus) ==
    [status |-> IF localStatus = "closed" THEN "closed" ELSE "open",
     applications |-> Append(vacancy.applications, app)]

\* SaveApply that puts the new element at the head of the array
SaveApplyPrepends(vacancy, app, localStatus) ==
    [status |-> IF localStatus = "closed" THEN "closed" ELSE vacancy.status,
     applications |-> <<app>> \o vacancy.applications]

\* the update sent by document.save(): $push of the new element, and $set of
\* status when the handler assigned it
SaveApply(vacancy, app, localStatus) ==
    [status |-> IF localStatus = "closed" THEN "closed" ELSE vacancy.status,
     applications |-> Append(vacancy.applications, app)]

\* lines 242-279: findOne, duplicate check, push, close check
ApplyFindTA(s, v, t) ==
    /\ Free(s)
    /\ LET r == [IdleReq EXCEPT !.op = "apply", !.route = "TA", !.vac = v,
                                !.teacher = t]
           w == CHOOSE x \in FindOpen(v) : TRUE
       IN IF FindOpen(v) = {}
          THEN /\ last' = Response(r, "NotFoundOrNotOpen", "none", <<>>)
               /\ UNCHANGED <<req, nextId, ops>>
          ELSE IF AlreadyApplied(store[w].applications, t)
          THEN /\ last' = Response(r, "AlreadyApplied", "none", <<>>)
               /\ UNCHANGED <<req, nextId, ops>>
          ELSE /\ ops < MaxOps
               /\ LET n == Len(store[w].applications) + 1
                  IN req' = [req EXCEPT ![s] =
                         [r EXCEPT !.pc = "save", !.vac = w,
                                   !.newApp = PushedApp(t), !.localLen = n,
                                   !.localStatus = LocalStatusAfterPush(
                                                       n, store[w].status)]]
               /\ nextId' = nextId + 1
               /\ ops' = ops + 1
               /\ UNCHANGED last
    /\ UNCHANGED store

\* line 281: await existingVacancy.save()
ApplySaveTA(s) ==
    /\ req[s].pc = "save"
    /\ req[s].route = "TA"
    /\ store' = [store EXCEPT ![req[s].vac] =
                    SaveApply(@, req[s].newApp, req[s].localStatus)]
    /\ req' = [req EXCEPT ![s].pc = "refetch"]
    /\ UNCHANGED <<nextId, ops, last>>

\* lines 284-294: Vacancy.findById(vacancyId), then the response with
\* vacancyStatus: existingVacancy.status, applications: updatedVacancy.applications
ApplyRefetchTA(s) ==
    /\ req[s].pc = "refetch"
    /\ last' = Response(req[s], "Success", req[s].localStatus,
                        store[req[s].vac].applications)
    /\ req' = [req EXCEPT ![s] = IdleReq]
    /\ UNCHANGED <<store, nextId, ops>>

\* ------------------------------------------------ apply, vacancyRoutes.js
\* `if (vacancy.applications.length >= 5)`
ReachedMaximum(apps) == Len(apps) >= CAPACITY

\* lines 265-305: findOne, duplicate check, capacity check, push
ApplyFindVR(s, v, t) ==
    /\ Free(s)
    /\ LET r == [IdleReq EXCEPT !.op = "apply", !.route = "VR", !.vac = v,
                                !.teacher = t]
           w == CHOOSE x \in FindOpen(v) : TRUE
       IN IF FindOpen(v) = {}
          THEN /\ last' = Response(r, "NotFoundOrNotOpen", "none", <<>>)
               /\ UNCHANGED <<req, nextId, ops>>
          ELSE IF AlreadyApplied(store[w].applications, t)
          THEN /\ last' = Response(r, "AlreadyApplied", "none", <<>>)
               /\ UNCHANGED <<req, nextId, ops>>
          ELSE IF ReachedMaximum(store[w].applications)
          THEN /\ last' = Response(r, "MaxApplications", "none", <<>>)
               /\ UNCHANGED <<req, nextId, ops>>
          ELSE /\ ops < MaxOps
               /\ req' = [req EXCEPT ![s] =
                      [r EXCEPT !.pc = "save", !.vac = w,
                                !.newApp = PushedApp(t),
                                !.localLen = Len(store[w].applications) + 1,
                                !.localStatus = store[w].status]]
               /\ nextId' = nextId + 1
               /\ ops' = ops + 1
               /\ UNCHANGED last
    /\ UNCHANGED store

\* lines 307-312: await vacancy.save(), then the response (success and
\* message only)
ApplySaveVR(s) ==
    /\ req[s].pc = "save"
    /\ req[s].route = "VR"
    /\ store' = [store EXCEPT ![req[s].vac] =
                    SaveApply(@, req[s].newApp, "unmodified")]
    /\ last' = Response(req[s], "Success", "none", <<>>)
    /\ req' = [req EXCEPT ![s] = IdleReq]
    /\ UNCHANGED <<nextId, ops>>

\* --------------------------------------- application status, teacherApply.js
\* SetStatusTA with `status: 'closed'` set whatever the requested status
SetStatusTAClosesAlways(vacancy, a, target) ==
    [status |-> "closed",
     applications |-> SetPositional(vacancy.applications, a, target)]

\* the update document of findOneAndUpdate: the matched element gets the
\* requested status, and the vacancy is closed when that status is 'accepted'
SetStatusTA(vacancy, a, target) ==
    [status |-> IF target = "accepted" THEN "closed" ELSE vacancy.status,
     applications |-> SetPositional(vacancy.applications, a, target)]

\* lines 557-581 (and 603-607 when the status is not 'accepted'):
\* findOneAndUpdate({ 'applications._id': applicationId }, .., { new: true })
StatusUpdateTA(s, a, target) ==
    /\ Free(s)
    /\ ops < MaxOps
    /\ ops' = ops + 1
    /\ LET r == [IdleReq EXCEPT !.op = "status", !.route = "TA", !.appId = a,
                                !.target = target]
       IN IF VacanciesWithApp(a) = {}
          THEN /\ last' = Response(r, "ApplicationNotFound", "none", <<>>)
               /\ UNCHANGED <<store, req>>
          ELSE LET v == CHOOSE w \in VacanciesWithApp(a) : TRUE
                   updated == SetStatusTA(store[v], a, target)
                   r2 == [r EXCEPT !.vac = v, !.pre = store[v].applications,
                                   !.doc = updated.applications]
               IN /\ store' = [store EXCEPT ![v] = updated]
                  /\ IF target = "accepted"
                     THEN /\ req' = [req EXCEPT ![s] =
                                        [r2 EXCEPT !.pc = "cascade"]]
                          /\ UNCHANGED last
                     ELSE /\ last' = Response(r2, "Success", "none", r2.doc)
                          /\ UNCHANGED req
    /\ UNCHANGED nextId

\* StatusCascadeTA that writes and then waits: no response is sent and the
\* request stays in flight
StatusCascadeTAStays(s) ==
    /\ req[s].pc = "cascade"
    /\ store' = [store EXCEPT ![req[s].vac].applications =
                    RejectOtherPending(@, req[s].appId)]
    /\ UNCHANGED <<nextId, ops, req, last>>

\* lines 584-607: Vacancy.updateOne with arrayFilters, then the response,
\* whose data is the document that findOneAndUpdate returned
StatusCascadeTA(s) ==
    /\ req[s].pc = "cascade"
    /\ store' = [store EXCEPT ![req[s].vac].applications =
                    RejectOtherPending(@, req[s].appId)]
    /\ last' = Response(req[s], "Success", "none", req[s].doc)
    /\ req' = [req EXCEPT ![s] = IdleReq]
    /\ UNCHANGED <<nextId, ops>>

\* -------------------------------------- application status, vacancyRoutes.js
\* the update document: { $set: { 'applications.$.status': status } }
SetStatusVR(vacancy, a, target) ==
    [status |-> vacancy.status,
     applications |-> SetPositional(vacancy.applications, a, target)]

\* lines 200-226: findOneAndUpdate({ _id: vacancyId,
\*                                   'applications._id': applicationId }, ..)
StatusUpdateVR(s, v, a, target) ==
    /\ Free(s)
    /\ ops < MaxOps
    /\ ops' = ops + 1
    /\ LET r == [IdleReq EXCEPT !.op = "status", !.route = "VR", !.vac = v,
                                !.appId = a, !.target = target]
       IN IF v \notin VacanciesWithApp(a)
          THEN /\ last' = Response(r, "ApplicationNotFound", "none", <<>>)
               /\ UNCHANGED store
          ELSE /\ store' = [store EXCEPT ![v] = SetStatusVR(@, a, target)]
               /\ last' = Response(r, "Success", "none", <<>>)
    /\ UNCHANGED <<nextId, req>>

\* ------------------------------------ available vacancies, teacherApply.js
\* AvailableTo without the $expr condition on the size of the array
AvailableToAnySize(t) ==
    {v \in VacancyIds :
        /\ store[v].status = "open"
        /\ \A i \in 1..Len(store[v].applications) :
               store[v].applications[i].teacher # t}

\* Vacancy.find({ status: 'open',
\*                $expr: { $lt: [{ $size: '$applications' }, 5] },
\*                'applications.teacher': { $ne: currentTeacherId } }):
\* $ne on an array path matches when no element of the array is equal
AvailableTo(t) ==
    {v \in VacancyIds :
        /\ store[v].status = "open"
        /\ Len(store[v].applications) < CAPACITY
        /\ \A i \in 1..Len(store[v].applications) :
               store[v].applications[i].teacher # t}

\* lines 196-223: one find, then the response with the documents found
ListAvailableTA(t) ==
    /\ last' = [NoResponse EXCEPT !.op = "listAvailable", !.route = "TA",
                                  !.teacher = t, !.outcome = "Success",
                                  !.vacancies = AvailableTo(t)]
    /\ UNCHANGED <<store, nextId, ops, req>>

\* ------------------------------------------------------------ specification
Next ==
    \/ \E s \in Slots, v \in VacancyIds \cup {NoVacancy}, t \in ApplyTeachers :
           ApplyFindTA(s, v, t)
    \/ \E s \in Slots : ApplySaveTA(s)
    \/ \E s \in Slots : ApplyRefetchTA(s)
    \/ \E s \in Slots, v \in VacancyIds \cup {NoVacancy}, t \in ApplyTeachers :
           ApplyFindVR(s, v, t)
    \/ \E s \in Slots : ApplySaveVR(s)
    \/ \E s \in Slots, a \in AppIds, target \in TargetStatuses :
           StatusUpdateTA(s, a, target)
    \/ \E s \in Slots : StatusCascadeTA(s)
    \/ \E s \in Slots, v \in VacancyIds \cup {NoVacancy}, a \in AppIds,
          target \in TargetStatuses :
           StatusUpdateVR(s, v, a, target)
    \/ \E t \in ApplyTeachers : ListAvailableTA(t)

Spec == Init /\ [][Next]_vars

\* The store answers every operation a handler awaits, and the event loop
\* then runs the handler's continuation: a request in flight takes its
\* next step.  New requests arrive or not, as the clients decide.
Continue(s) ==
    \/ ApplySaveTA(s)
    \/ ApplyRefetchTA(s)
    \/ ApplySaveVR(s)
    \/ StatusCascadeTA(s)

FairSpec == Spec /\ \A s \in Slots : WF_vars(Continue(s))

\* ------------------------------------- vacancy status, vacancyRoutes.js
\* values of req.body.status that pass the check of the handler
VacancyStatuses == {"open", "closed"}

\* lines 118-146: PATCH /:id/status of the administrator,
\* findByIdAndUpdate(req.params.id, { status }, { new: true })
PatchVacancyStatus(v, status) ==
    /\ ops < MaxOps
    /\ ops' = ops + 1
    /\ LET r == [IdleReq EXCEPT !.op = "vacancyStatus", !.route = "VR",
                                !.vac = v, !.target = status]
       IN IF v \notin VacancyIds
          THEN /\ last' = Response(r, "VacancyNotFound", "none", <<>>)
               /\ UNCHANGED store
          ELSE /\ store' = [store EXCEPT ![v].status = status]
               /\ last' = Response(r, "Success", status,
                                   store[v].applications)
    /\ UNCHANGED <<nextId, req>>

\* the operations of Next and the administrator's status override
NextAdmin ==
    \/ Next
    \/ \E v \in VacancyIds \cup {NoVacancy}, status \in VacancyStatuses :
           PatchVacancyStatus(v, status)

AdminSpec == Init /\ [][NextAdmin]_vars

\* ------------------------------------------------------------ properties
Apps(v) == store[v].applications
Positions(v) == 1..Len(store[v].applications)

\* C1: in every reachable state every vacancy holds at most 5 applications.
C1_AtMostFiveApplications ==
    \A v \in VacancyIds : Len(Apps(v)) <= CAPACITY

\* C2: of two concurrent applies by different teachers that both read an open
\* vacancy with exactly 4 applications, only one is admitted: the one that
\* writes after the 5th application is stored appends nothing and is answered
\* with the capacity failure.
C2_SecondConcurrentApplyFails ==
    [][\A s \in Slots :
          (/\ req[s].pc = "save"
           /\ req'[s].pc # "save"
           /\ req[s].localLen = CAPACITY
           /\ Len(Apps(req[s].vac)) = CAPACITY
           /\ Apps(req[s].vac)[CAPACITY].teacher # req[s].teacher)
          => (/\ store' = store
              /\ req'[s].pc = "idle"
              /\ last'.outcome = "MaxApplications")]_vars

\* C3: in every reachable state no vacancy contains two applications of the
\* same teacher.
C3_NoTwoApplicationsOfOneTeacher ==
    \A v \in VacancyIds : \A i, j \in Positions(v) :
        i # j => Apps(v)[i].teacher # Apps(v)[j].teacher

\* C4: in every stored state, a vacancy with an accepted application is
\* closed, has exactly one accepted application, and none that is pending.
C4_AcceptedMeansClosedAndResolved ==
    \A v \in VacancyIds :
        (\E i \in Positions(v) : Apps(v)[i].status = "accepted")
        => (/\ store[v].status = "closed"
            /\ Cardinality({i \in Positions(v) :
                               Apps(v)[i].status = "accepted"}) = 1
            /\ \A i \in Positions(v) : Apps(v)[i].status # "pending")

\* C5: an application's status changes only from pending to accepted or to
\* rejected; a status request on an application that is not pending, or with
\* another target, is answered InvalidTransition and changes nothing.
StatusChangeAllowed(old, new) ==
    old = new \/ (old = "pending" /\ new \in {"accepted", "rejected"})

InvalidTransition(v, a, target) ==
    /\ v \in VacanciesWithApp(a)
    /\ \/ Apps(v)[PositionOf(Apps(v), a)].status # "pending"
       \/ target \notin {"accepted", "rejected"}

C5_OnlyPendingIsTransitioned ==
    [][/\ \A v \in VacancyIds : \A i \in Positions(v) :
             /\ i <= Len(store'[v].applications)
             /\ StatusChangeAllowed(Apps(v)[i].status,
                                    store'[v].applications[i].status)
       /\ \A s \in Slots, v \in VacancyIds, a \in AppIds,
             target \in TargetStatuses :
             (/\ StatusUpdateTA(s, a, target) \/ StatusUpdateVR(s, v, a, target)
              /\ InvalidTransition(v, a, target))
             => (store' = store /\ last'.outcome = "InvalidTransition")]_vars

\* C6: while a request that accepts an application is in progress, the store
\* never shows its target accepted next to an application of the vacancy that
\* is still pending.
C6_AcceptanceIsOneUnit ==
    \A s \in Slots :
        (req[s].op = "status" /\ req[s].target = "accepted")
        => ~ \E i, j \in Positions(req[s].vac) :
                 /\ Apps(req[s].vac)[i].id = req[s].appId
                 /\ Apps(req[s].vac)[i].status = "accepted"
                 /\ j # i
                 /\ Apps(req[s].vac)[j].status = "pending"

\* C7: a successful acceptance of a pending application, on a vacancy with
\* no other accepted application, leaves that application accepted, every
\* application that was pending rejected, every rejected one rejected, the
\* vacancy closed, and the same applications in the same order.
Acceptable(pre, a) ==
    /\ \E i \in 1..Len(pre) : pre[i].id = a
    /\ pre[PositionOf(pre, a)].status = "pending"
    /\ \A i \in 1..Len(pre) : pre[i].status # "accepted"

AcceptedResult(pre, a, vacancy) ==
    /\ vacancy.status = "closed"
    /\ Len(vacancy.applications) = Len(pre)
    /\ \A i \in 1..Len(pre) :
           vacancy.applications[i] =
               [pre[i] EXCEPT !.status = IF pre[i].id = a THEN "accepted"
                                                          ELSE "rejected"]

C7_AcceptanceCascades ==
    [][/\ \A s \in Slots :
             (/\ req[s].pc = "cascade"
              /\ req'[s].pc = "idle"
              /\ Acceptable(req[s].pre, req[s].appId))
             => AcceptedResult(req[s].pre, req[s].appId, store'[req[s].vac])
       /\ \A s \in Slots, v \in VacancyIds, a \in AppIds :
             (/\ StatusUpdateVR(s, v, a, "accepted")
              /\ Acceptable(Apps(v), a))
             => AcceptedResult(Apps(v), a, store'[v])]_vars

\* C8: a request to accept an application of a vacancy that already has
\* another accepted application is answered ConflictingAcceptance and
\* changes nothing.
OtherAccepted(v, a) ==
    /\ v \in VacanciesWithApp(a)
    /\ \E i \in Positions(v) :
           Apps(v)[i].id # a /\ Apps(v)[i].status = "accepted"

C8_SecondAcceptanceRefused ==
    [][\A s \in Slots, v \in VacancyIds, a \in AppIds :
          (/\ StatusUpdateTA(s, a, "accepted")
              \/ StatusUpdateVR(s, v, a, "accepted")
           /\ OtherAccepted(v, a))
          => (store' = store /\ last'.outcome = "ConflictingAcceptance")]_vars

\* C9: rejecting a pending application changes the status of that application
\* and nothing else: not the vacancy's status, not another application, not
\* another vacancy.
PendingIn(v, a) ==
    /\ v \in VacanciesWithApp(a)
    /\ Apps(v)[PositionOf(Apps(v), a)].status = "pending"

OnlyRejected(v, a) ==
    /\ \A w \in VacancyIds \ {v} : store'[w] = store[w]
    /\ store'[v].status = store[v].status
    /\ Len(store'[v].applications) = Len(Apps(v))
    /\ \A i \in Positions(v) :
           store'[v].applications[i] =
               IF Apps(v)[i].id = a
               THEN [Apps(v)[i] EXCEPT !.status = "rejected"]
               ELSE Apps(v)[i]

C9_RejectionTouchesOnlyItsApplication ==
    [][\A s \in Slots, v \in VacancyIds, a \in AppIds :
          (/\ StatusUpdateTA(s, a, "rejected")
              \/ StatusUpdateVR(s, v, a, "rejected")
           /\ PendingIn(v, a))
          => OnlyRejected(v, a)]_vars

\* a rejection was the only request so far: its application is rejected, the
\* one next to it is still pending and the vacancy is still open
C9_Witness ==
    /\ ops = 1
    /\ last.op = "status"
    /\ last.target = "rejected"
    /\ last.outcome = "Success"
    /\ \E v \in VacancyIds :
           /\ store[v].status = "open"
           /\ \E i, j \in Positions(v) :
                  /\ Apps(v)[i].id = last.appId
                  /\ Apps(v)[i].status = "rejected"
                  /\ Apps(v)[j].status = "pending"

\* C10: the write of a successful apply appends one pending application of
\* the applying teacher at the end of the list; the vacancy is closed by that
\* write, and reported closed, exactly when it then holds 5 applications, and
\* is open otherwise.
C10_ApplyAppendsAndClosesOnFifth ==
    [][\A s \in Slots :
          (req[s].pc = "save" /\ req'[s].pc # "save")
          => LET v == req[s].vac
                 new == store'[v]
                 n == Len(new.applications)
                 reported == IF req[s].route = "TA" THEN req[s].localStatus
                                                    ELSE last'.vacancyStatus
             IN /\ n = Len(Apps(v)) + 1
                /\ SubSeq(new.applications, 1, n - 1) = Apps(v)
                /\ new.applications[n].teacher = req[s].teacher
                /\ new.applications[n].status = "pending"
                /\ new.status = IF n = CAPACITY THEN "closed" ELSE "open"
                /\ (reported = "closed") <=> (n = CAPACITY)]_vars

\* ------------------------------------------------- properties of apply
\* an apply request (v, t) is handled: the first step of either route
ApplyRequested(s, v, t) == ApplyFindTA(s, v, t) \/ ApplyFindVR(s, v, t)

\* the step answers the request with `outcome` and does nothing else
RefusedWith(outcome) ==
    /\ store' = store
    /\ req' = req
    /\ nextId' = nextId
    /\ last'.outcome = outcome

\* the slot a new request takes, if there is one
FreeSlots == {s \in Slots : Free(s)}

\* A step that handles a request in slot s leaves the teacher and the
\* application id of that request in the response it sends or in the request
\* it puts in flight; the properties quantify over these.
StepTeachers(s) == {last'.teacher, req'[s].teacher} \cap Teachers

StepAppIds(s) == {last'.appId, req'[s].appId} \cap AppIds

\* teacher t has an application on vacancy v
AppliedBefore(v, t) == \E i \in Positions(v) : Apps(v)[i].teacher = t

\* C11: an apply on a vacancy that already holds 5 applications is refused
\* and appends nothing, whatever the statuses of the 5 (the answer is the
\* capacity failure when the vacancy is still open).
C11_ApplyOnFullVacancyRefused ==
    [][\A s \in FreeSlots : \A v \in VacancyIds, t \in StepTeachers(s) :
          (/\ Len(Apps(v)) >= CAPACITY
           /\ ~AlreadyApplied(Apps(v), t)
           /\ ApplyRequested(s, v, t))
          => IF store[v].status = "open"
             THEN RefusedWith("MaxApplications")
             ELSE RefusedWith("NotFoundOrNotOpen")]_vars

\* C12: an apply on a closed vacancy is refused as not open and leaves the
\* vacancy's applications and status unchanged.
C12_ApplyOnClosedVacancyRefused ==
    [][\A s \in FreeSlots : \A v \in VacancyIds, t \in StepTeachers(s) :
          (store[v].status = "closed" /\ ApplyRequested(s, v, t))
          => RefusedWith("NotFoundOrNotOpen")]_vars

\* an apply was refused on a vacancy that is closed and holds applications
C12_Witness ==
    /\ last.op = "apply"
    /\ last.outcome = "NotFoundOrNotOpen"
    /\ last.vac \in VacancyIds
    /\ store[last.vac].status = "closed"
    /\ Len(Apps(last.vac)) > 0
    /\ \A s \in Slots : req[s].pc = "idle"

\* C13: once a vacancy is closed with its 5th application stored, its
\* application list never grows again.
C13_ClosedByCapacityNeverGrows ==
    [][\A v \in VacancyIds :
          (store[v].status = "closed" /\ Len(Apps(v)) >= CAPACITY)
          => Len(store'[v].applications) = Len(Apps(v))]_vars

ApplicationsOf(apps, t) == {i \in 1..Len(apps) : apps[i].teacher = t}

Committed(v, t) == Cardinality(ApplicationsOf(Apps(v), t)) = 1

C16_AcceptanceReturnsStoredList ==
    [][\A s \in Slots :
          (req[s].pc = "cascade" /\ req'[s].pc = "idle")
          => last'.applications = store'[req[s].vac].applications]_vars

\* C17: the listing for teacher t returns exactly the vacancies that are
\* open, hold fewer than 5 applications, and hold no application of t.
C17_ListAvailableIsExact ==
    [][\A t \in Teachers :
          ListAvailableTA(t)
          => last'.vacancies =
                 {v \in VacancyIds : /\ store[v].status = "open"
                                     /\ Len(Apps(v)) < CAPACITY
                                     /\ ~AppliedBefore(v, t)}]_vars

\* a listing that left out an open vacancy with room because the teacher
\* has an application there, which is no longer pending
C17_Witness ==
    /\ last.op = "listAvailable"
    /\ last.vacancies = {}
    /\ \E v \in VacancyIds :
           /\ store[v].status = "open"
           /\ Len(Apps(v)) < CAPACITY
           /\ \E i \in Positions(v) : /\ Apps(v)[i].teacher = last.teacher
                                       /\ Apps(v)[i].status = "rejected"

\* C18: an apply that names a vacancy id that does not exist, and a status
\* request that names an application id that no vacancy contains, are each
\* answered not found and change no vacancy and no application.
InNoVacancy(a) ==
    \A v \in VacancyIds : \A i \in Positions(v) : Apps(v)[i].id # a

C18_UnknownIdsRefused ==
    [][/\ \A s \in FreeSlots : \A t \in StepTeachers(s) :
             ApplyRequested(s, NoVacancy, t)
             => RefusedWith("NotFoundOrNotOpen")
       /\ \A s \in FreeSlots :
             \A a \in {x \in StepAppIds(s) : InNoVacancy(x)},
                v \in VacancyIds \cup {NoVacancy}, target \in TargetStatuses :
                (\/ StatusUpdateTA(s, a, target)
                 \/ StatusUpdateVR(s, v, a, target))
                => RefusedWith("ApplicationNotFound")]_vars

\* an apply with an unknown vacancy id was refused while an open vacancy
\* with applications was in the store
C18_Witness ==
    /\ last.op = "apply"
    /\ last.vac = NoVacancy
    /\ last.outcome = "NotFoundOrNotOpen"
    /\ \E v \in VacancyIds : store[v].status = "open" /\ Len(Apps(v)) > 0

\* C19: in every reachable state the applications of each vacancy are in
\* ascending appliedAt order, also when concurrent applies take their
\* timestamp before their write and commit in another order.
C19_ListsAscendByAppliedAt ==
    \A v \in VacancyIds : \A i, j \in Positions(v) :
        i < j => Apps(v)[i].appliedAt <= Apps(v)[j].appliedAt

C21_ListIsAppendOnly ==
    [][\A v \in VacancyIds : \A i \in Positions(v) :
          /\ i <= Len(store'[v].applications)
          /\ store'[v].applications[i].id = Apps(v)[i].id
          /\ store'[v].applications[i].teacher = Apps(v)[i].teacher
          /\ store'[v].applications[i].appliedAt = Apps(v)[i].appliedAt]_vars

\* an apply was stored at the end of a list whose first application had
\* been given another status
C21_Witness ==
    /\ last.op = "apply"
    /\ last.outcome = "Success"
    /\ \A s \in Slots : req[s].pc = "idle"
    /\ Len(Apps(last.vac)) >= 2
    /\ Apps(last.vac)[Len(Apps(last.vac))].teacher = last.teacher
    /\ Apps(last.vac)[1].status = "rejected"

\* ------------------------------- properties of acceptance against apply
\* the vacancy document is closed, has exactly one accepted application
\* and none that is pending
Resolved(vacancy) ==
    /\ vacancy.status = "closed"
    /\ Cardinality({i \in 1..Len(vacancy.applications) :
                       vacancy.applications[i].status = "accepted"}) = 1
    /\ \A i \in 1..Len(vacancy.applications) :
           vacancy.applications[i].status # "pending"

\* C22: when an acceptance and an apply on the same vacancy interleave, the
\* apply having read the vacancy while it was open, the final stored state
\* has the vacancy closed and no pending application beside the accepted
\* one: the write of an apply that comes after the acceptance and its
\* cascade are written, when no other write is to come, leaves the vacancy
\* so.
C22_ApplyWriteKeepsAcceptanceResolved ==
    [][\A s \in Slots :
          (/\ req[s].pc = "save"
           /\ req'[s].pc # "save"
           /\ \A x \in Slots \ {s} : req[x].pc = "idle"
           /\ Resolved(store[req[s].vac]))
          => Resolved(store'[req[s].vac])]_vars

\* C23: the write of an apply changes the status of no application that is
\* already stored: a status written by a status request between the apply's
\* read and its write is still in place after the write.
C23_ApplyWriteKeepsStatuses ==
    [][\A s \in Slots :
          (req[s].pc = "save" /\ req'[s].pc # "save")
          => \A i \in Positions(req[s].vac) :
                 store'[req[s].vac].applications[i].status
                     = Apps(req[s].vac)[i].status]_vars

\* Slot 2 is taken only while slot 1 is busy: the acceptance in slot 2
\* wrote its target after the apply in slot 1 had read the vacancy, and the
\* apply has written since (it waits for its re-read).
C23_Witness ==
    /\ req[1].op = "apply"
    /\ req[1].pc = "refetch"
    /\ req[2].pc = "cascade"
    /\ req[2].vac = req[1].vac
    /\ \E i, j \in Positions(req[1].vac) :
           /\ Apps(req[1].vac)[i].id = req[2].appId
           /\ Apps(req[1].vac)[i].status = "accepted"
           /\ Apps(req[1].vac)[j].id = req[1].newApp.id

\* ------------------------------------------ properties of vacancy status
\* the step is the save of an apply that counted 5 applications on its copy
AutoCloseOn(v) ==
    \E s \in Slots :
        /\ req[s].pc = "save"
        /\ req'[s].pc # "save"
        /\ req[s].vac = v
        /\ req[s].localLen = CAPACITY

\* the step is the first write of a status request with target accepted
\* on an application of the vacancy (accepted already or not)
AcceptanceOn(v) ==
    \E s \in Slots :
        /\ req[s].pc = "idle"
        /\ req'[s].pc = "cascade"
        /\ req'[s].vac = v
        /\ req'[s].target = "accepted"

\* C24: no step of an apply or of a status request changes a vacancy from
\* closed to open; a vacancy's status changes only to closed, by the
\* auto-close of the 5th apply or by an acceptance.
C24_ClosedStaysClosed ==
    [][\A v \in VacancyIds :
          /\ store[v].status = "closed" => store'[v].status = "closed"
          /\ store'[v].status # store[v].status
             => /\ store'[v].status = "closed"
                /\ AutoCloseOn(v) \/ AcceptanceOn(v)]_vars

\* an apply that had read the vacancy open was stored after an acceptance
\* had closed it, and the vacancy is closed
C24_Witness ==
    /\ req[1].op = "apply"
    /\ req[1].pc = "refetch"
    /\ req[1].localStatus = "open"
    /\ req[2].pc = "cascade"
    /\ req[2].vac = req[1].vac
    /\ store[req[1].vac].status = "closed"
    /\ Len(Apps(req[1].vac)) < CAPACITY

\* ---------------------------------- properties of listing against apply
\* an apply (v, t) of teacherApply.js that runs alone in this state passes
\* the handler's checks (findOne with status 'open', no application of t on
\* the document found), saves and answers success
ApplyAloneSucceeds(v, t) ==
    /\ FindOpen(v) # {}
    /\ \A w \in FindOpen(v) : ~AlreadyApplied(store[w].applications, t)

\* C25: in every reachable state, also after an administrator has set a
\* vacancy back to open, the listing for teacher t returns a vacancy
\* exactly when an apply of t on it, run alone in that state, would succeed.
C25_ListingAgreesWithApply ==
    \A t \in Teachers, v \in VacancyIds :
        (v \in AvailableTo(t)) <=> ApplyAloneSucceeds(v, t)
====
